---- MODULE Spec2Model ----
(***************************************************************************)
(* The train/validate driver of train_val.py: main's epoch loop, train's   *)
(* per-batch optimisation, val's inference pass, the ReduceLROnPlateau     *)
(* scheduler it steps once per epoch, and the two checkpoint files.        *)
(*                                                                         *)
(* Numbers.  Validation losses are drawn from a small set of naturals      *)
(* together with Inf (float('inf')).  Learning rates are fixed-point       *)
(* numbers in units of 1e-10, so 1e-7 is 1000 and 1e-8 is 100; the chosen  *)
(* initial rates keep every product with the factor 0.3 exact.  Model      *)
(* parameters are abstracted to a version number: the count of optimizer   *)
(* updates applied to them.                                                *)
(***************************************************************************)
EXTENDS Integers, Sequences, FiniteSets, TLC

VARIABLES
    args,          \* the argparse namespace as it is now
    parsed,        \* the namespace as get_args returned it (never assigned again)
    loaders,       \* len(train_loader), len(val_loader)
    pc,            \* position of main / train
    epoch,         \* loop variable of main's for loop (0 before the first epoch)
    batch_i,       \* train's loop variable, counted from 1 here (0: no batch yet)
    model,         \* [params, training]
    grad,          \* contributions accumulated in the parameters' .grad
    optimizer,     \* [lr, steps]: param_groups[0]['lr'] and Adam's step count
    lr_scheduler,  \* [best, num_bad_epochs, cooldown_counter, last_epoch]
    best_loss,     \* main's best_loss
    v_loss,        \* value returned by the last val call
    model_best,    \* content of <save_dir>/model_best.pth
    checkpoints,   \* set of [name, data]: <save_dir>/model_checkpoint_<name>.pth
    error,         \* the uncaught exception that ended the run, or "none"
    done_logged,   \* logger.info('done') has run
    \* observation variables: they record what happened, no action reads
    \* them to decide what the program does
    prevLowest,    \* lowest validation loss of the epochs before this one
    lowest,        \* lowest validation loss returned so far
    lowestAt,      \* parameters after the training pass of the earliest epoch
                   \* whose validation loss is `lowest`
    trainEnd,      \* parameters when this epoch's training pass returned
    passSteps,     \* optimizer steps taken in the current training pass
    applied,       \* gradient contributions used by the last optimizer step
    epochLog,      \* stages completed in the current epoch, in order
    wrote,         \* checkpoint files written in the current epoch
    stagnant,      \* consecutive scheduler steps without improvement of its best
    schedMetric,   \* metric handed to the last scheduler step
    lrBefore       \* learning rate before the last scheduler step

vars == << args, parsed, loaders, pc, epoch, batch_i, model, grad, optimizer,
           lr_scheduler, best_loss, v_loss, model_best, checkpoints, error,
           done_logged, prevLowest, lowest, lowestAt, trainEnd, passSteps,
           applied, epochLog, wrote, stagnant, schedMetric, lrBefore >>

progVars == << args, loaders, pc, epoch, batch_i, model, grad, optimizer,
               lr_scheduler, best_loss, v_loss, model_best, checkpoints,
               error, done_logged >>

obsVars == << prevLowest, lowest, lowestAt, trainEnd, passSteps, applied,
              epochLog, wrote, stagnant, schedMetric, lrBefore >>

----------------------------------------------------------------------------
\* Bounds of the exploration

\* largest number of batches in the training loader
MaxBatches == 2
\* --num_epochs of the runs that vary the whole configuration
ShortEpochs == 3
\* --num_epochs of the runs that vary the initial learning rate
LongEpochs == 8

----------------------------------------------------------------------------
\* Values

\* float('inf')
Inf == 1000000
\* mean validation losses a pass can return, in units of 1e-6: two values
\* closer than the scheduler's relative threshold, one clearly lower, and
\* +infinity (an overflowed loss); NaN, which no comparison orders, is left out
Losses == {10000, 19999, 20000, Inf}

\* file content markers: no such file / a file left truncated by a failed write
NoFile == -2
Partial == -1

Min(a, b) == IF a <= b THEN a ELSE b
Max(a, b) == IF a >= b THEN a ELSE b

\* --save_interval values (type=int accepts any integer)
SaveIntervals == {-2, 0, 1, 2, 3}
\* --device values (type=str)
Devices == {"cpu", "cuda"}
\* --lr default 1e-3
DefaultLr == 10000000
\* --lr values of the long runs: 0, 5e-8, 1e-7, 1.05e-7, 2e-7, 1e-6
LrChoices == {0, 500, 1000, 1050, 2000, 10000}
\* --patch_size default
DefaultPatchSize == 50

----------------------------------------------------------------------------
\* ReduceLROnPlateau(optimizer, mode='min', factor=0.3, patience=6, min_lr=1E-7)
\* with the constructor's defaults threshold=1e-4, threshold_mode='rel',
\* cooldown=0, eps=1e-8

patience == 6
min_lr == 1000
eps == 100
factor_num == 3
factor_den == 10
cooldown == 0
\* 1 - threshold = 9999 / 10000
threshold_num == 9999
threshold_den == 10000

\* is_better, mode 'min', threshold_mode 'rel': a < best * (1 - threshold)
is_better(a, best) ==
    IF best = Inf THEN a # Inf
    ELSE IF a = Inf THEN FALSE
    ELSE a * threshold_den < best * threshold_num

\* a reduction that forgets the floor min_lr
reduce_lr_unbounded(old_lr) ==
    LET new_lr == (old_lr * factor_num) \div factor_den
    IN  IF old_lr - new_lr > eps THEN new_lr ELSE old_lr

\* _reduce_lr: new_lr = max(old_lr * factor, min_lr), applied only when the
\* decrease exceeds eps
reduce_lr(old_lr) ==
    LET new_lr == Max((old_lr * factor_num) \div factor_den, min_lr)
    IN  IF old_lr - new_lr > eps THEN new_lr ELSE old_lr

\* a scheduler without patience: any bad epoch triggers the reduction
should_reduce_at_once(num_bad_epochs) == num_bad_epochs > 0

\* the test that triggers _reduce_lr
should_reduce(num_bad_epochs) == num_bad_epochs > patience

\* the bad-epoch count after comparing the metric with best
count_bad(s, metrics) ==
    IF is_better(metrics, s.best) THEN 0 ELSE s.num_bad_epochs + 1

\* ReduceLROnPlateau.step(metrics): the scheduler and the rate after the call
scheduler_step(s, lr, metrics) ==
    LET best1 == IF is_better(metrics, s.best) THEN metrics ELSE s.best
        bad1  == count_bad(s, metrics)
        inCd  == s.cooldown_counter > 0
        cd1   == IF inCd THEN s.cooldown_counter - 1 ELSE s.cooldown_counter
        bad2  == IF inCd THEN 0 ELSE bad1
        red   == should_reduce(bad2)
    IN  [ sched |-> [ best |-> best1,
                      num_bad_epochs |-> IF red THEN 0 ELSE bad2,
                      cooldown_counter |-> IF red THEN cooldown ELSE cd1,
                      last_epoch |-> s.last_epoch + 1 ],
          lr |-> IF red THEN reduce_lr(lr) ELSE lr ]

----------------------------------------------------------------------------
\* Python's % for a non-zero divisor: the result has the divisor's sign
PyMod(a, b) == IF b > 0 THEN a % b ELSE -((-a) % (-b))

\* model.state_dict(): the snapshot torch.save writes
state_dict(m) == m.params

\* the scheduler fed the running best instead of the epoch's loss
SchedulerMetricBest(v, b) == b

\* the metric main hands to lr_scheduler.step
SchedulerMetric(v, b) == v

\* a non-strict test, and no test at all
ImprovedOrEqual(v, b) == v <= b
ImprovedAlways(v, b) == TRUE

\* the test guarding the write of model_best.pth
Improved(v, b) == v < b

\* the number in the periodic checkpoint's file name
CheckpointName(e) == e

\* an exception swallowed by the loop, which goes on with the next epoch
RaiseCaught(p) == "loop"

\* position of the run after an exception: nothing in main catches it
Raise(p) == "failed"

\* the content a failed torch.save can leave at its target: the file as it
\* was (the open failed) or a truncated one (the write failed part-way)
FailedWrite(old) == {old, Partial}

\* a training step that never clears the gradients
zero_grad_missing(g) == g

\* optimizer.zero_grad(), loss.backward(), optimizer.step()
zero_grad(g) == {}
backward(g, b) == g \cup {b}
optimizer_step(m) == [m EXCEPT !.params = @ + 1]

\* a validation pass that also updates the parameters
val_model_updates(m) == [m EXCEPT !.training = FALSE, !.params = @ + 1]

\* val's effect on the model: model.eval(), forward passes under no_grad
val_model(m) == [m EXCEPT !.training = FALSE]

----------------------------------------------------------------------------
InitCommon ==
    /\ parsed = args
    /\ pc = "loop"
    /\ epoch = 0
    /\ batch_i = 0
    /\ model = [params |-> 0, training |-> TRUE]
    /\ grad = {}
    /\ optimizer = [lr |-> args.lr, steps |-> 0]
    /\ lr_scheduler = [best |-> Inf, num_bad_epochs |-> 0,
                       cooldown_counter |-> 0, last_epoch |-> 0]
    /\ best_loss = Inf
    /\ v_loss = Inf
    /\ model_best = NoFile
    /\ checkpoints = {}
    /\ error = "none"
    /\ done_logged = FALSE
    /\ prevLowest = Inf
    /\ lowest = Inf
    /\ lowestAt = NoFile
    /\ trainEnd = 0
    /\ passSteps = 0
    /\ applied = {}
    /\ epochLog = << >>
    /\ wrote = {}
    /\ stagnant = 0
    /\ schedMetric = Inf
    /\ lrBefore = args.lr

\* runs that vary the whole configuration over a few epochs
InitShort ==
    /\ args \in [ device : Devices, patch_size : {DefaultPatchSize},
                  save_interval : SaveIntervals, lr : {DefaultLr},
                  num_epochs : {0, ShortEpochs} ]
    /\ loaders \in [ train : 0..MaxBatches, val : 0..1 ]
    /\ InitCommon

\* runs long enough for the scheduler to act, over the initial rates
InitLong ==
    /\ args \in [ device : {"cpu"}, patch_size : {DefaultPatchSize},
                  save_interval : {3}, lr : LrChoices,
                  num_epochs : {LongEpochs} ]
    /\ loaders = [ train |-> 1, val |-> 1 ]
    /\ InitCommon

Init == InitShort \/ InitLong

----------------------------------------------------------------------------
\* main, line 133 and line 147: the head of the epoch loop and its exit
LoopHead ==
    /\ pc = "loop"
    /\ IF epoch < args.num_epochs
       THEN /\ epoch' = epoch + 1
            /\ pc' = "train"
            /\ UNCHANGED done_logged
       ELSE /\ pc' = "done"
            /\ done_logged' = TRUE
            /\ UNCHANGED epoch
    /\ prevLowest' = lowest
    /\ epochLog' = << >>
    /\ wrote' = {}
    /\ UNCHANGED << args, parsed, loaders, batch_i, model, grad, optimizer,
                    lr_scheduler, best_loss, v_loss, model_best, checkpoints,
                    error, lowest, lowestAt, trainEnd, passSteps, applied,
                    stagnant, schedMetric, lrBefore >>

\* train, lines 47-50: the prologue and the first look at the loader
TrainEnter ==
    /\ pc = "train"
    /\ args' = [args EXCEPT !.device = "cpu"]
    /\ model' = [model EXCEPT !.training = TRUE]
    /\ IF loaders.train > 0
       THEN batch_i' = 1 /\ pc' = "forward"
       ELSE batch_i' = 0 /\ pc' = "train_ret"
    /\ passSteps' = 0
    /\ UNCHANGED << parsed, loaders, epoch, grad, optimizer, lr_scheduler,
                    best_loss, v_loss, model_best, checkpoints, error,
                    done_logged, prevLowest, lowest, lowestAt, trainEnd,
                    applied, epochLog, wrote, stagnant, schedMetric, lrBefore >>

\* train, lines 51-56: reshape, move to the device, pred = model(inp_data)
Forward ==
    /\ pc = "forward"
    /\ pc' = "loss"
    /\ UNCHANGED << args, parsed, loaders, epoch, batch_i, model, grad,
                    optimizer, lr_scheduler, best_loss, v_loss, model_best,
                    checkpoints, error, done_logged, obsVars >>

\* train, line 57: loss = loss_func(pred, gt_data)
Loss ==
    /\ pc = "loss"
    /\ pc' = "zero_grad"
    /\ UNCHANGED << args, parsed, loaders, epoch, batch_i, model, grad,
                    optimizer, lr_scheduler, best_loss, v_loss, model_best,
                    checkpoints, error, done_logged, obsVars >>

\* train, line 58: optimizer.zero_grad()
ZeroGrad ==
    /\ pc = "zero_grad"
    /\ grad' = zero_grad(grad)
    /\ pc' = "backward"
    /\ UNCHANGED << args, parsed, loaders, epoch, batch_i, model,
                    optimizer, lr_scheduler, best_loss, v_loss, model_best,
                    checkpoints, error, done_logged, obsVars >>

\* train, line 59: loss.backward() adds this batch's gradient to .grad
Backward ==
    /\ pc = "backward"
    /\ grad' = backward(grad, << epoch, batch_i >>)
    /\ pc' = "opt_step"
    /\ UNCHANGED << args, parsed, loaders, epoch, batch_i, model,
                    optimizer, lr_scheduler, best_loss, v_loss, model_best,
                    checkpoints, error, done_logged, obsVars >>

\* train, lines 60-71 and back to line 50: optimizer.step(), the running
\* total, and the loader's next batch
OptStep ==
    /\ pc = "opt_step"
    /\ model' = optimizer_step(model)
    /\ optimizer' = [optimizer EXCEPT !.steps = @ + 1]
    /\ applied' = grad
    /\ passSteps' = passSteps + 1
    /\ IF batch_i < loaders.train
       THEN batch_i' = batch_i + 1 /\ pc' = "forward"
       ELSE batch_i' = batch_i /\ pc' = "train_ret"
    /\ UNCHANGED << args, parsed, loaders, epoch, grad, lr_scheduler,
                    best_loss, v_loss, model_best, checkpoints, error,
                    done_logged, prevLowest, lowest, lowestAt, trainEnd,
                    epochLog, wrote, stagnant, schedMetric, lrBefore >>

\* train, lines 73-74: return total_loss / (batch_i + 1); batch_i is unbound
\* when the loader gave no batch
TrainReturn ==
    /\ pc = "train_ret"
    /\ IF batch_i = 0
       THEN /\ pc' = Raise(pc)
            /\ error' = "UnboundLocalError@74"
            /\ UNCHANGED << trainEnd, epochLog >>
       ELSE /\ pc' = "val"
            /\ trainEnd' = model.params
            /\ epochLog' = Append(epochLog, "train")
            /\ UNCHANGED error
    /\ UNCHANGED << args, parsed, loaders, epoch, batch_i, model, grad,
                    optimizer, lr_scheduler, best_loss, v_loss, model_best,
                    checkpoints, done_logged, prevLowest, lowest, lowestAt,
                    passSteps, applied, wrote, stagnant, schedMetric,
                    lrBefore >>

\* val, lines 78-105, called at line 136: the whole pass; the mean loss is
\* any value of Losses; len(dataloader) = 0 divides by zero at line 102
Val ==
    /\ pc = "val"
    /\ args' = [args EXCEPT !.device = "cpu"]
    /\ model' = val_model(model)
    /\ IF loaders.val = 0
       THEN /\ pc' = Raise(pc)
            /\ error' = "ZeroDivisionError@102"
            /\ UNCHANGED << v_loss, lowest, lowestAt, epochLog >>
       ELSE /\ \E v \in Losses :
                 /\ v_loss' = v
                 /\ lowest' = Min(lowest, v)
                 /\ lowestAt' = IF v < lowest THEN trainEnd ELSE lowestAt
            /\ pc' = "sched"
            /\ epochLog' = Append(epochLog, "val")
            /\ UNCHANGED error
    /\ UNCHANGED << parsed, loaders, epoch, batch_i, grad, optimizer,
                    lr_scheduler, best_loss, model_best, checkpoints,
                    done_logged, prevLowest, trainEnd, passSteps, applied,
                    wrote, stagnant, schedMetric, lrBefore >>

\* main, line 137: lr_scheduler.step(v_loss)
SchedulerStep ==
    /\ pc = "sched"
    /\ LET metrics == SchedulerMetric(v_loss, best_loss)
           r == scheduler_step(lr_scheduler, optimizer.lr, metrics)
       IN  /\ lr_scheduler' = r.sched
           /\ optimizer' = [optimizer EXCEPT !.lr = r.lr]
           /\ schedMetric' = metrics
           /\ stagnant' = IF is_better(metrics, lr_scheduler.best)
                          THEN 0 ELSE stagnant + 1
    /\ lrBefore' = optimizer.lr
    /\ pc' = "best"
    /\ epochLog' = Append(epochLog, "sched")
    /\ UNCHANGED << args, parsed, loaders, epoch, batch_i, model, grad,
                    best_loss, v_loss, model_best, checkpoints, error,
                    done_logged, prevLowest, lowest, lowestAt, trainEnd,
                    passSteps, applied, wrote >>

\* main, lines 139-141: the best checkpoint, written without error
BestCheckpoint ==
    /\ pc = "best"
    /\ IF Improved(v_loss, best_loss)
       THEN /\ best_loss' = v_loss
            /\ model_best' = state_dict(model)
            /\ wrote' = wrote \cup {"best"}
       ELSE UNCHANGED << best_loss, model_best, wrote >>
    /\ pc' = "periodic"
    /\ epochLog' = Append(epochLog, "best")
    /\ UNCHANGED << args, parsed, loaders, epoch, batch_i, model, grad,
                    optimizer, lr_scheduler, v_loss, checkpoints, error,
                    done_logged, prevLowest, lowest, lowestAt, trainEnd,
                    passSteps, applied, stagnant, schedMetric, lrBefore >>

\* main, lines 139-141 when torch.save raises: best_loss is already assigned
BestCheckpointFail ==
    /\ pc = "best"
    /\ Improved(v_loss, best_loss)
    /\ best_loss' = v_loss
    /\ model_best' \in FailedWrite(model_best)
    /\ pc' = Raise(pc)
    /\ error' = "torch.save"
    /\ UNCHANGED << args, parsed, loaders, epoch, batch_i, model, grad,
                    optimizer, lr_scheduler, v_loss, checkpoints,
                    done_logged, obsVars >>

\* the content of model_checkpoint_<n>.pth
FileData(n) ==
    IF \E f \in checkpoints : f.name = n
    THEN (CHOOSE f \in checkpoints : f.name = n).data
    ELSE NoFile

\* the directory after model_checkpoint_<n>.pth is given content d
WriteFile(n, d) ==
    IF d = NoFile THEN { f \in checkpoints : f.name # n }
    ELSE { f \in checkpoints : f.name # n } \cup { [name |-> n, data |-> d] }

\* main, lines 143-144: the periodic checkpoint, written without error;
\* save_interval = 0 divides by zero at line 143
PeriodicCheckpoint ==
    /\ pc = "periodic"
    /\ IF args.save_interval = 0
       THEN /\ pc' = Raise(pc)
            /\ error' = "ZeroDivisionError@143"
            /\ UNCHANGED << checkpoints, wrote, epochLog >>
       ELSE /\ IF PyMod(epoch, args.save_interval) = 0
               THEN /\ checkpoints' =
                         WriteFile(CheckpointName(epoch), state_dict(model))
                    /\ wrote' = wrote \cup {"periodic"}
               ELSE UNCHANGED << checkpoints, wrote >>
            /\ pc' = "loop"
            /\ epochLog' = Append(epochLog, "periodic")
            /\ UNCHANGED error
    /\ UNCHANGED << args, parsed, loaders, epoch, batch_i, model, grad,
                    optimizer, lr_scheduler, best_loss, v_loss, model_best,
                    done_logged, prevLowest, lowest, lowestAt, trainEnd,
                    passSteps, applied, stagnant, schedMetric, lrBefore >>

\* main, lines 143-144 when torch.save raises
PeriodicCheckpointFail ==
    /\ pc = "periodic"
    /\ args.save_interval # 0
    /\ PyMod(epoch, args.save_interval) = 0
    /\ \E d \in FailedWrite(FileData(CheckpointName(epoch))) :
          checkpoints' = WriteFile(CheckpointName(epoch), d)
    /\ pc' = Raise(pc)
    /\ error' = "torch.save"
    /\ UNCHANGED << args, parsed, loaders, epoch, batch_i, model, grad,
                    optimizer, lr_scheduler, best_loss, v_loss, model_best,
                    done_logged, obsVars >>

\* statements of train, val and the scheduler step that can raise
Raising == {"forward", "loss", "zero_grad", "backward", "opt_step", "val",
            "sched"}

\* an exception raised inside train (lines 52-60), inside val's loop (lines
\* 84-100, after model.eval()) or by lr_scheduler.step (line 137)
Fail ==
    /\ pc \in Raising
    /\ pc' = Raise(pc)
    /\ error' = "Exception"
    /\ model' = IF pc = "val" THEN val_model(model) ELSE model
    /\ args' = IF pc = "val" THEN [args EXCEPT !.device = "cpu"] ELSE args
    /\ UNCHANGED << parsed, loaders, epoch, batch_i, grad, optimizer,
                    lr_scheduler, best_loss, v_loss, model_best, checkpoints,
                    done_logged, obsVars >>

Next ==
    \/ LoopHead
    \/ TrainEnter
    \/ Forward
    \/ Loss
    \/ ZeroGrad
    \/ Backward
    \/ OptStep
    \/ TrainReturn
    \/ Val
    \/ SchedulerStep
    \/ BestCheckpoint
    \/ BestCheckpointFail
    \/ PeriodicCheckpoint
    \/ PeriodicCheckpointFail
    \/ Fail

Spec == Init /\ [][Next]_vars

----------------------------------------------------------------------------
\* Properties

\* an epoch whose five stages have all run: main is back at the loop head
EpochCompleted == pc = "loop" /\ epoch >= 1

\* e is a multiple of k
IsMultiple(e, k) == \E m \in -e..e : e = m * k

\* C1: in every epoch, model_best.pth is written exactly when the epoch's
\* validation loss is strictly lower than the lowest validation loss of all
\* earlier epochs (+infinity before the first); the file never changes at any
\* other point of the run.
C1_BestWrittenIffStrictDecrease ==
    /\ [](pc \in {"periodic", "loop"} /\ epoch >= 1
            => (("best" \in wrote) <=> (v_loss < prevLowest)))
    /\ [][model_best' # model_best
            => pc = "best" /\ v_loss < prevLowest]_vars

\* C1 witness: a later epoch improved on a finite earlier loss and wrote the
\* file again
C1_Witness ==
    /\ pc = "periodic" /\ epoch >= 2
    /\ "best" \in wrote /\ prevLowest # Inf /\ v_loss < prevLowest

\* C2 (as claimed): for every accepted save_interval, the periodic checkpoint
\* of epoch e is written iff e is a multiple of save_interval, under the name
\* e, and no run fails because of the save_interval value.
C2_PeriodicForEveryInterval ==
    /\ error # "ZeroDivisionError@143"
    /\ EpochCompleted =>
          /\ ("periodic" \in wrote) <=> IsMultiple(epoch, args.save_interval)
          /\ "periodic" \in wrote => FileData(epoch) = state_dict(model)

\* C6 (as claimed): every configuration value equals the value it had when
\* get_args returned.
C6_ConfigurationImmutable == args = parsed

\* C10: after every completed epoch the tracked best loss is the minimum
\* validation loss so far, model_best.pth (when it exists) holds the snapshot
\* of the earliest epoch that reached that minimum, and the tracked best loss
\* never increases.
C10_BestIsEarliestMinimum ==
    /\ [](EpochCompleted =>
            /\ best_loss = lowest
            /\ model_best # NoFile => model_best = lowestAt
            /\ lowest # Inf => model_best # NoFile)
    /\ [][best_loss' <= best_loss]_vars

\* C10 witness: an epoch tied with the minimum reached two epochs earlier
\* and left the older snapshot in place
C10_Witness ==
    /\ EpochCompleted /\ epoch >= 3
    /\ v_loss = lowest /\ "best" \notin wrote
    /\ model_best = lowestAt /\ model_best < trainEnd

\* C3: the learning rate changes only in a scheduler step that ends at least
\* 6 consecutive epochs without improvement of the scheduler's best loss; a
\* step that improves the best loss resets the count and leaves the rate.
C3_ReduceOnlyAfterPatience ==
    [][ /\ optimizer'.lr # optimizer.lr => pc = "sched" /\ stagnant' >= 6
        /\ (pc = "sched" /\ pc' = "best"
                /\ is_better(v_loss, lr_scheduler.best))
              => /\ optimizer'.lr = optimizer.lr
                 /\ lr_scheduler'.num_bad_epochs = 0
                 /\ lr_scheduler'.best = v_loss ]_vars

\* C3 witness: the rate was just lowered, after epochs without improvement
C3_Witness ==
    pc = "best" /\ optimizer.lr < lrBefore /\ stagnant >= 6

\* C4 (as claimed): for every initial rate, the learning rate after any
\* number of epochs is never below the floor 1e-7
C4_NeverBelowFloor == EpochCompleted => optimizer.lr >= 1000

\* C4 (amended): the learning rate is never below the smaller of the initial
\* rate and the floor 1e-7, never increases, and every change sets it to
\* max(0.3 * previous rate, 1e-7).
C4_FloorFromInitialRate ==
    /\ [](optimizer.lr >= Min(parsed.lr, 1000))
    /\ [][ /\ optimizer'.lr <= optimizer.lr
           /\ optimizer'.lr # optimizer.lr
                => optimizer'.lr = Max((3 * optimizer.lr) \div 10, 1000) ]_vars

\* C4 witness: a reduction that the floor cut short (0.3 * 2e-7 < 1e-7)
C4_Witness ==
    /\ pc = "best" /\ optimizer.lr = 1000 /\ lrBefore > 1000
    /\ 3 * lrBefore < 10 * 1000

\* the checkpoint files other than the one the current stage writes
OtherFilesKept ==
    /\ pc # "best" => model_best' = model_best
    /\ \A f \in checkpoints :
          (pc = "periodic" /\ f.name = epoch) \/ f \in checkpoints'
    /\ \A f \in checkpoints' :
          (pc = "periodic" /\ f.name = epoch) \/ f \in checkpoints

\* C5 (as claimed): a failure ends the run; no step follows it, 'done' is
\* never logged, and the failing step leaves every checkpoint file written
\* before it as it was.
C5_FailureKeepsAllFiles ==
    [][ /\ error = "none"
        /\ error' # "none"
              => /\ ~done_logged'
                 /\ model_best # NoFile => model_best' = model_best
                 /\ checkpoints \subseteq checkpoints' ]_vars

\* C5 (amended): a failure ends the run; no step follows it, 'done' is never
\* logged, and the failing step leaves every checkpoint file as it was except
\* the one whose write failed, which keeps its content or is left truncated.
C5_FailureIsFatal ==
    [][ /\ error = "none"
        /\ error' # "none"
              => /\ pc' = "failed" /\ ~done_logged' /\ epoch' = epoch
                 /\ OtherFilesKept
                 /\ model_best' \in {model_best, Partial}
                 /\ \A f \in checkpoints' :
                       f \in checkpoints \/ f.data = Partial ]_vars

\* C5 witness: a run that failed after writing both kinds of checkpoint
C5_Witness ==
    /\ error # "none" /\ pc = "failed" /\ epoch >= 2
    /\ model_best # NoFile /\ checkpoints # {}

\* the stages of an epoch, in the order main runs them
EpochOrder == << "train", "val", "sched", "best", "periodic" >>

\* C7: the stages of every epoch run in the order training pass, validation
\* pass, scheduler step, best checkpoint, periodic checkpoint; the scheduler
\* is stepped once per epoch with that epoch's validation loss, after the
\* training pass, and a checkpoint written in an epoch holds the parameters
\* that epoch's training pass produced.
C7_EpochOrder ==
    /\ Len(epochLog) <= Len(EpochOrder)
    /\ epochLog = SubSeq(EpochOrder, 1, Len(epochLog))
    /\ EpochCompleted => epochLog = EpochOrder
    /\ lr_scheduler.last_epoch =
          IF Len(epochLog) >= 3 THEN epoch
          ELSE IF epoch = 0 \/ pc = "done" THEN epoch ELSE epoch - 1
    /\ Len(epochLog) >= 3 => schedMetric = v_loss
    /\ Len(epochLog) >= 1 => state_dict(model) = trainEnd
    /\ "best" \in wrote => Len(epochLog) >= 4 /\ model_best = trainEnd
    /\ "periodic" \in wrote
          => Len(epochLog) = 5 /\ FileData(epoch) = trainEnd

\* C7 witness: an epoch after the first wrote both checkpoints
C7_Witness ==
    EpochCompleted /\ epoch >= 2 /\ wrote = {"best", "periodic"}

\* the position that follows each statement of train's loop body
BodyOrder ==
    /\ pc = "forward" => pc' \in {"loss", "failed"}
    /\ pc = "loss" => pc' \in {"zero_grad", "failed"}
    /\ pc = "zero_grad" => pc' \in {"backward", "failed"}
    /\ pc = "backward" => pc' \in {"opt_step", "failed"}
    /\ pc = "opt_step" => pc' \in {"forward", "train_ret", "failed"}

\* C8: every batch causes exactly one optimizer step, taken in the order
\* forward, loss, clear gradients, backpropagate, step, with gradients of
\* that batch alone; a pass over n batches takes exactly n steps.
C8_OneStepPerBatch ==
    /\ [][ /\ BodyOrder
           /\ optimizer'.steps # optimizer.steps
                => /\ pc = "opt_step"
                   /\ optimizer'.steps = optimizer.steps + 1
                   /\ grad = { << epoch, batch_i >> }
                   /\ applied' = grad
                   /\ passSteps' = batch_i ]_vars
    /\ [](pc = "val" => passSteps = loaders.train)

\* C8 witness: the second pass over two batches has returned
C8_Witness ==
    /\ pc = "val" /\ epoch >= 2 /\ passSteps = 2
    /\ applied = { << epoch, 2 >> }

\* C9: a validation pass leaves the parameters, the optimizer state and its
\* learning rate, the scheduler state and the best-loss bound as they were.
C9_ValChangesNoTrainingState ==
    [][ pc = "val"
          => /\ model'.params = model.params
             /\ grad' = grad
             /\ optimizer' = optimizer
             /\ lr_scheduler' = lr_scheduler
             /\ best_loss' = best_loss ]_vars

\* C9 witness: a validation pass returned after training had changed the
\* parameters and the scheduler had seen a loss
C9_Witness ==
    /\ pc = "sched" /\ epoch >= 2 /\ ~model.training
    /\ model.params > 0 /\ lr_scheduler.best # Inf

====
